---- MODULE Spec2Model ----
(***************************************************************************)
(* Long-term memory store (task/tools/memory/memory_store.py):             *)
(* LongTermMemoryStore with its blob-store persistence, in-process cache,  *)
(* exact similarity search and the near-duplicate consolidation pass.      *)
(*                                                                         *)
(* Time is counted in whole hours.  Embeddings are integer vectors; the    *)
(* inner product of two L2-normalized vectors (their cosine) is kept as an *)
(* exact signed square  sgn(a.b) * (a.b)^2 / (|a|^2 |b|^2), which orders   *)
(* and compares against a threshold exactly as the cosine itself does.     *)
(***************************************************************************)
EXTENDS Integers, Sequences, FiniteSets, TLC

(* ------------------------------ bounds --------------------------------- *)

\* at most this many add_memory calls in one behaviour
MaxAdds == 1

\* the clock stops advancing at this hour
MaxClock == 26

(* ------------------------- program constants --------------------------- *)

DEDUP_INTERVAL_HOURS == 24

\* _needs_deduplication: collections of at most this many memories are never deduplicated
DEDUP_MIN_SIZE == 10

\* SIMILARITY_THRESHOLD = 0.75, as the fraction 3 / 4
SIMILARITY_THRESHOLD_NUM == 3

SIMILARITY_THRESHOLD_DEN == 4

\* _deduplicate_fast: k = min(10, len(memories))
DEDUP_K == 10

\* search_memories(..., top_k: int = 5)
DEFAULT_TOP_K == 5

(* ------------------------------ inputs --------------------------------- *)

ApiKeys == {"key1"}

\* hours by which the clock advances between operations
TickHours == {24, 25}

\* the texts the embedding model is applied to
Texts == {"t0", "t1", "t2", "t3", "t4", "t6", "t7", "t8", "t9", "t10", "t11", "u1"}

\* contents and queries of the tool calls
AddContents == {"t0"}

AddImportances == {3, 9}

Queries == {"t0", "t9"}

TopKs == {1, DEFAULT_TOP_K}

(* --------------------------- embedding engine -------------------------- *)

\* self.model.encode([text])[0]: a fixed vector per text
Encode(text) ==
    CASE text = "t0"  -> <<10, 0>>
      [] text = "t1"  -> <<9, 1>>
      [] text = "t2"  -> <<8, 2>>
      [] text = "t3"  -> <<7, 3>>
      [] text = "t4"  -> <<6, 4>>
      [] text = "t6"  -> <<4, 6>>
      [] text = "t7"  -> <<3, 7>>
      [] text = "t8"  -> <<2, 8>>
      [] text = "t9"  -> <<1, 9>>
      [] text = "t10" -> <<0, 10>>
      [] text = "t11" -> <<9, 2>>
      [] text = "u1"  -> <<-3, 5>>

Dot(a, b) == a[1] * b[1] + a[2] * b[2]

Sign(x) == IF x > 0 THEN 1 ELSE IF x < 0 THEN -1 ELSE 0

\* faiss.normalize_L2 on both vectors followed by their inner product: the
\* cosine of a and b, as the signed square num / den
NormalizedInnerProduct(a, b) ==
    [num |-> Sign(Dot(a, b)) * Dot(a, b) * Dot(a, b), den |-> Dot(a, a) * Dot(b, b)]

\* cosine c1 < cosine c2
CosLess(c1, c2) == c1.num * c2.den < c2.num * c1.den

\* cosine c > p / q, for 0 < p, 0 < q
CosGreaterThan(c, p, q) == c.num * q * q > p * p * c.den

\* cosine c < p / q, for 0 < p, 0 < q
CosLessThan(c, p, q) == c.num * q * q < p * p * c.den

(* ------------------------------ data model ----------------------------- *)

\* an optional timestamp: <<>> is None, <<t>> is the time t
None == <<>>

Some(t) == <<t>>

MemoryData(id, content, importance, category, topics) ==
    [id |-> id, content |-> content, importance |-> importance,
     category |-> category, topics |-> topics]

Memory(data, embedding) == [data |-> data, embedding |-> embedding]

MemoryCollection(memories, updated_at, last_deduplicated_at) ==
    [memories |-> memories, updated_at |-> updated_at,
     last_deduplicated_at |-> last_deduplicated_at]

(* --------------------------- serialization ----------------------------- *)

\* a datetime in the JSON text: an ISO-8601 string, or null
IsoString(t) == [null |-> FALSE, iso |-> t]

JsonNull == [null |-> TRUE, iso |-> 0]

\* ModelDumpJson writing null for last_deduplicated_at, whatever it is
ModelDumpJsonWithoutDedupStamp(collection) ==
    [memories |-> collection.memories,
     updated_at |-> IsoString(collection.updated_at),
     last_deduplicated_at |-> JsonNull]

\* memories.model_dump_json()
ModelDumpJson(collection) ==
    [memories |-> collection.memories,
     updated_at |-> IsoString(collection.updated_at),
     last_deduplicated_at |->
        IF collection.last_deduplicated_at = None THEN JsonNull
        ELSE IsoString(collection.last_deduplicated_at[1])]

\* json.loads(content) and MemoryCollection.model_validate(data) raise nothing:
\* the required updated_at is a datetime
JsonValid(json) == ~json.updated_at.null

\* MemoryCollection.model_validate(json.loads(content))
ModelValidate(json) ==
    MemoryCollection(json.memories, json.updated_at.iso,
        IF json.last_deduplicated_at.null THEN None
        ELSE Some(json.last_deduplicated_at.iso))

(* ----------------------------- blob store ------------------------------ *)

\* await dial_client.my_appdata_home() followed by the path format
\* GetMemoryFilePath giving every credential the same path
GetMemoryFilePathShared(api_key) == <<"files", "shared", "appdata", "__long-memories", "data.json">>

GetMemoryFilePath(api_key) == <<"files", api_key, "appdata", "__long-memories", "data.json">>

Paths == {GetMemoryFilePath(k) : k \in ApiKeys}

EmptyJson == [memories |-> <<>>, updated_at |-> JsonNull, last_deduplicated_at |-> JsonNull]

\* no object at the path
NoBlob == [exists |-> FALSE, json |-> EmptyJson]

\* an object whose content is not the JSON of a MemoryCollection
MalformedBlob == [exists |-> TRUE, json |-> EmptyJson]

\* the object written by files.upload(url, json_data.encode('utf-8'))
Blob(json) == [exists |-> TRUE, json |-> json]

\* the object at the path holds a MemoryCollection
Readable(b) == b.exists /\ JsonValid(b.json)

\* the memories held by the object at the path, none when it holds no collection
PersistedMemories(b) == IF Readable(b) THEN ModelValidate(b.json).memories ELSE <<>>

(* -------------------------------- cache -------------------------------- *)

NoEntry == [present |-> FALSE, collection |-> MemoryCollection(<<>>, 0, None)]

Entry(collection) == [present |-> TRUE, collection |-> collection]

(* --------------------------- similarity index -------------------------- *)

\* the orders in which an index may rank the labels 1..n: best score first,
\* labels of equal score in any order (built by inserting label n into the
\* orders of 1..n-1 at every place that keeps the scores descending)
RECURSIVE RankedOrders(_, _)
RankedOrders(score, n) ==
    IF n = 0 THEN {<<>>}
    ELSE UNION {
           {SubSeq(order, 1, p - 1) \o <<n>> \o SubSeq(order, p, Len(order)) :
              p \in {q \in 1..Len(order) + 1 :
                        /\ q = 1 \/ ~CosLess(score[order[q - 1]], score[n])
                        /\ q = Len(order) + 1 \/ ~CosLess(score[n], score[order[q]])}}
           : order \in RankedOrders(score, n - 1)}

\* the lists of k labels a search over n vectors may return
BestFirst(n, score, k) == {SubSeq(order, 1, k) : order \in RankedOrders(score, n)}

\* IndexFlatIPSearch returning the labels by ascending inner product
IndexFlatIPSearchAscending(embeddings, query_vec, k) ==
    BestFirst(Len(embeddings),
              [i \in 1..Len(embeddings) |->
                  [NormalizedInnerProduct(embeddings[i], query_vec) EXCEPT !.num = 0 - @]], k)

\* faiss.IndexFlatIP over the normalized embeddings, index.search(query_vec, k):
\* labels by descending inner product
IndexFlatIPSearch(embeddings, query_vec, k) ==
    BestFirst(Len(embeddings),
              [i \in 1..Len(embeddings) |-> NormalizedInnerProduct(embeddings[i], query_vec)], k)

\* faiss.IndexHNSWFlat(dimension, 32) is built with the default metric, L2:
\* index.search(embeddings, k)[row] lists the labels by ascending squared L2
\* distance of the normalized vectors, 2 - 2 * cosine, that is by descending
\* cosine.  With at most 2 * 32 vectors the graph links every pair, so the
\* search is exact
IndexHNSWFlatSearch(embeddings, row, k) ==
    BestFirst(Len(embeddings),
              [j \in 1..Len(embeddings) |-> NormalizedInnerProduct(embeddings[row], embeddings[j])], k)

\* DistanceAboveThreshold that holds for every pair
DistanceAlwaysAboveThreshold(a, b) == TRUE

\* distances[i][j_idx] > SIMILARITY_THRESHOLD for the squared L2 distance
\* 2 - 2 * cosine the HNSW index returns:  cosine < (2 * DEN - NUM) / (2 * DEN)
DistanceAboveThreshold(a, b) ==
    CosLessThan(NormalizedInnerProduct(a, b),
                2 * SIMILARITY_THRESHOLD_DEN - SIMILARITY_THRESHOLD_NUM,
                2 * SIMILARITY_THRESHOLD_DEN)

(* ------------------------- deduplication engine ------------------------ *)

Min(a, b) == IF a < b THEN a ELSE b

\* j is at an inspected position, range(1, k), of some list of k neighbours
\* the index may return for memory i
Inspected(memories, i, j) ==
    \E neighbors \in IndexHNSWFlatSearch([m \in 1..Len(memories) |-> memories[m].embedding],
                                        i, Min(DEDUP_K, Len(memories))) :
        \E j_idx \in 2..Len(neighbors) : neighbors[j_idx] = j

\* lines 231-234 of _deduplicate_fast for memory i and an inspected neighbour
\* j: the value listed for j passes "similarity > SIMILARITY_THRESHOLD"
TreatedAsDuplicate(memories, i, j) ==
    /\ Inspected(memories, i, j)
    /\ DistanceAboveThreshold(memories[i].embedding, memories[j].embedding)

\* sorted(range(len(memories)), key=importance, reverse=True): a stable sort
RECURSIVE SortedByImportance(_, _)
SortedByImportance(memories, remaining) ==
    IF remaining = {} THEN <<>>
    ELSE LET first == CHOOSE i \in remaining : \A j \in remaining :
                          \/ memories[i].data.importance > memories[j].data.importance
                          \/ /\ memories[i].data.importance = memories[j].data.importance
                             /\ i <= j
         IN  <<first>> \o SortedByImportance(memories, remaining \ {first})

\* AtLeastAsImportant with the comparison turned round
AtMostAsImportant(memories, i, neighbor_idx) ==
    memories[i].data.importance <= memories[neighbor_idx].data.importance

\* memories[i].data.importance >= memories[neighbor_idx].data.importance: the
\* neighbour is the one to remove
AtLeastAsImportant(memories, i, neighbor_idx) ==
    memories[i].data.importance >= memories[neighbor_idx].data.importance

\* the inner loop of _deduplicate_fast for memory i over its neighbour list,
\* from position j_idx on (position 1 of the list is skipped by the caller)
RECURSIVE CheckNeighbors(_, _, _, _, _)
CheckNeighbors(memories, i, neighbors, j_idx, to_remove) ==
    IF j_idx > Len(neighbors) THEN to_remove
    ELSE LET neighbor_idx == neighbors[j_idx]
         IN  IF /\ DistanceAboveThreshold(memories[i].embedding, memories[neighbor_idx].embedding)
                /\ neighbor_idx \notin to_remove
             THEN IF AtLeastAsImportant(memories, i, neighbor_idx)
                  THEN CheckNeighbors(memories, i, neighbors, j_idx + 1, to_remove \cup {neighbor_idx})
                  ELSE to_remove \cup {i}
             ELSE CheckNeighbors(memories, i, neighbors, j_idx + 1, to_remove)

\* the outer loop over importance_order from position t on; removals is the
\* set of the to_remove sets the neighbour lists seen so far can have produced
RECURSIVE DedupLoop(_, _, _, _)
DedupLoop(memories, importance_order, t, removals) ==
    IF t > Len(importance_order) THEN removals
    ELSE LET i == importance_order[t]
             k == Min(DEDUP_K, Len(memories))
             lists == IndexHNSWFlatSearch([m \in 1..Len(memories) |-> memories[m].embedding], i, k)
         IN  DedupLoop(memories, importance_order, t + 1,
                UNION {IF i \in to_remove THEN {to_remove}
                       ELSE {CheckNeighbors(memories, i, neighbors, 2, to_remove) : neighbors \in lists}
                       : to_remove \in removals})

\* _deduplicate_fast: the sets of positions it may remove
DeduplicateFast(memories) ==
    IF Len(memories) <= 1 THEN {{}}
    ELSE DedupLoop(memories, SortedByImportance(memories, 1..Len(memories)), 1, {{}})

\* Survivors listing the kept memories from the last to the first
SurvivorsNewestFirst(memories, to_remove, idx) ==
    LET kept == {p \in idx..Len(memories) : p \notin to_remove}
    IN  [t \in 1..Cardinality(kept) |->
            memories[CHOOSE p \in kept : Cardinality({q \in kept : q >= p}) = t]]

\* [m for idx, m in enumerate(memories) if idx not in to_remove]
RECURSIVE Survivors(_, _, _)
Survivors(memories, to_remove, idx) ==
    IF idx > Len(memories) THEN <<>>
    ELSE (IF idx \in to_remove THEN <<>> ELSE <<memories[idx]>>) \o Survivors(memories, to_remove, idx + 1)

(* -------------------------------- state -------------------------------- *)

VARIABLES
    now,      \* datetime.now(UTC), in hours
    blob,     \* the blob store: path -> object
    cache,    \* self._cache: path -> entry
    adds,     \* number of add_memory calls so far
    lastOp,   \* what the last operation was given, did and returned
    saved,    \* path -> the collection whose upload wrote the object, if any
    inflight  \* the calls suspended at an await, and the objects they share

vars == <<now, blob, cache, adds, lastOp, saved, inflight>>

STORED == "Memory successfully stored"

DELETED == "All memories have been successfully deleted."

RAISED == "raised"

RESULTS == "results"

\* the record of an operation, before the operation fills it in
NoOp ==
    [op |-> "none", api_key |-> "", at |-> 0, ret |-> "none",
     text |-> "", top_k |-> 0,
     newMemory |-> <<>>, results |-> <<>>, indices |-> <<>>,
     cacheHit |-> FALSE, loadFailed |-> FALSE, loaded |-> MemoryCollection(<<>>, 0, None),
     needsChecked |-> FALSE, dedupRan |-> FALSE, removed |-> {},
     encodedQuery |-> FALSE, uploads |-> 0, uploadFailed |-> FALSE,
     deleteRaised |-> FALSE, persistedBefore |-> <<>>, savedBefore |-> <<>>,
     viaTool |-> FALSE, arguments |-> <<>>, objectBefore |-> NoBlob,
     prevOp |-> "none", prevRet |-> "none"]

\* the record of an operation that follows the operation recorded in last
Begin(last, op, api_key, text, top_k) ==
    [NoOp EXCEPT !.op = op, !.api_key = api_key, !.at = now, !.text = text, !.top_k = top_k,
                 !.persistedBefore = PersistedMemories(blob[GetMemoryFilePath(api_key)]),
                 !.savedBefore = saved[GetMemoryFilePath(api_key)],
                 !.objectBefore = blob[GetMemoryFilePath(api_key)],
                 !.prevOp = last.op, !.prevRet = last.ret]

\* no call is suspended: every call runs from its start to its return
NothingInFlight == [tasks |-> <<>>, heap |-> <<>>, entry |-> <<>>]

(* ------------------------- persistence gateway ------------------------- *)

\* LoadMemories without the except clause: a failed download or validation raises
LoadMemoriesNoCatch(api_key, downloadOk) ==
    LET memory_file_path == GetMemoryFilePath(api_key)
        object == blob[memory_file_path]
    IN  IF cache[memory_file_path].present
        THEN [collection |-> cache[memory_file_path].collection,
              hit |-> TRUE, failed |-> FALSE, raised |-> FALSE]
        ELSE IF downloadOk /\ object.exists /\ JsonValid(object.json)
        THEN [collection |-> ModelValidate(object.json),
              hit |-> FALSE, failed |-> FALSE, raised |-> FALSE]
        ELSE [collection |-> MemoryCollection(<<>>, now, None),
              hit |-> FALSE, failed |-> TRUE, raised |-> TRUE]

\* _load_memories: the collection it returns, which is also the cache entry
\* from then on.  downloadOk: files.download reaches the store and gets an answer
LoadMemories(api_key, downloadOk) ==
    LET memory_file_path == GetMemoryFilePath(api_key)
        object == blob[memory_file_path]
    IN  IF cache[memory_file_path].present
        THEN [collection |-> cache[memory_file_path].collection,
              hit |-> TRUE, failed |-> FALSE, raised |-> FALSE]
        ELSE IF downloadOk /\ object.exists /\ JsonValid(object.json)
        THEN [collection |-> ModelValidate(object.json),
              hit |-> FALSE, failed |-> FALSE, raised |-> FALSE]
        ELSE [collection |-> MemoryCollection(<<>>, now, None),
              hit |-> FALSE, failed |-> TRUE, raised |-> FALSE]

\* SaveMemories swallowing the failure of the upload
SaveMemoriesSwallowing(object, memories, uploadOk) ==
    LET stamped == [memories EXCEPT !.updated_at = now]
    IN  [blob |-> IF uploadOk THEN Blob(ModelDumpJson(stamped)) ELSE object,
         cache |-> Entry(stamped),
         raised |-> FALSE]

\* _save_memories on a collection that is the cache entry of its path: the
\* stamp is written into the cached object before the upload is attempted.
\* uploadOk: files.upload completes
SaveMemories(object, memories, uploadOk) ==
    LET stamped == [memories EXCEPT !.updated_at = now]
    IN  [blob |-> IF uploadOk THEN Blob(ModelDumpJson(stamped)) ELSE object,
         cache |-> Entry(stamped),
         raised |-> ~uploadOk]

\* the collection that wrote the object, after a call with the outcome save
SavedAfter(path, save) == IF save.raised THEN saved[path] ELSE <<save.cache.collection>>

(* ------------------------------- add_memory ---------------------------- *)

\* add_memory: the object at the path, the cache entry and the record of the call
AddMemoryOutcome(api_key, content, importance, category, topics, downloadOk, uploadOk) ==
    LET memory_file_path == GetMemoryFilePath(api_key)
        begun == Begin(lastOp, "add", api_key, content, 0)
        load == LoadMemories(api_key, downloadOk)
        memory == Memory(MemoryData(now, content, importance, category, topics), Encode(content))
        collection == [load.collection EXCEPT !.memories = Append(@, memory)]
        save == SaveMemories(blob[memory_file_path], collection, uploadOk)
        loaded == [begun EXCEPT !.cacheHit = load.hit, !.loadFailed = load.failed,
                                !.loaded = load.collection]
    IN  IF load.raised
        THEN [blob |-> blob[memory_file_path], cache |-> cache[memory_file_path],
              saved |-> saved[memory_file_path],
              op |-> [loaded EXCEPT !.ret = RAISED]]
        ELSE [blob |-> save.blob, cache |-> save.cache,
              saved |-> SavedAfter(memory_file_path, save),
              op |-> [loaded EXCEPT !.newMemory = <<memory>>, !.uploads = 1,
                                    !.uploadFailed = save.raised,
                                    !.ret = IF save.raised THEN RAISED ELSE STORED]]

AddMemory(api_key, content, importance, category, topics, downloadOk, uploadOk) ==
    LET memory_file_path == GetMemoryFilePath(api_key)
        outcome == AddMemoryOutcome(api_key, content, importance, category, topics,
                                    downloadOk, uploadOk)
    IN  /\ adds < MaxAdds
        /\ adds' = adds + 1
        /\ blob' = [blob EXCEPT ![memory_file_path] = outcome.blob]
        /\ cache' = [cache EXCEPT ![memory_file_path] = outcome.cache]
        /\ lastOp' = outcome.op
        /\ saved' = [saved EXCEPT ![memory_file_path] = outcome.saved]
        /\ UNCHANGED <<now, inflight>>

(* --------------------------- delete_all_memories ----------------------- *)

\* DeleteAllMemoriesOutcome clearing the cache only when the delete call returned
DeleteAllMemoriesOutcomeKeepingCache(api_key, deleteOk) ==
    LET memory_file_path == GetMemoryFilePath(api_key)
        object == blob[memory_file_path]
        deleted == deleteOk /\ object.exists
    IN  [blob |-> IF deleted THEN NoBlob ELSE object,
         cache |-> IF deleted THEN NoEntry ELSE cache[memory_file_path],
         op |-> [Begin(lastOp, "deleteAll", api_key, "", 0) EXCEPT
                    !.deleteRaised = ~deleted, !.ret = DELETED]]

\* delete_all_memories.  deleteOk: files.delete completes; it raises when the
\* store cannot be reached and when there is no object at the path
DeleteAllMemoriesOutcome(api_key, deleteOk) ==
    LET memory_file_path == GetMemoryFilePath(api_key)
        object == blob[memory_file_path]
        deleted == deleteOk /\ object.exists
    IN  [blob |-> IF deleted THEN NoBlob ELSE object,
         cache |-> NoEntry,
         op |-> [Begin(lastOp, "deleteAll", api_key, "", 0) EXCEPT
                    !.deleteRaised = ~deleted, !.ret = DELETED]]

DeleteAllMemories(api_key, deleteOk) ==
    LET memory_file_path == GetMemoryFilePath(api_key)
        outcome == DeleteAllMemoriesOutcome(api_key, deleteOk)
    IN  /\ blob' = [blob EXCEPT ![memory_file_path] = outcome.blob]
        /\ cache' = [cache EXCEPT ![memory_file_path] = outcome.cache]
        /\ lastOp' = outcome.op
        /\ saved' = [saved EXCEPT ![memory_file_path] =
                        IF outcome.blob.exists THEN @ ELSE <<>>]
        /\ UNCHANGED <<now, adds, inflight>>

(* ----------------------------- search_memories ------------------------- *)

\* NeedsDeduplication without the test of the size of the collection
NeedsDeduplicationAnySize(collection) ==
    IF collection.last_deduplicated_at = None THEN TRUE
    ELSE now - collection.last_deduplicated_at[1] > DEDUP_INTERVAL_HOURS

\* NeedsDeduplication with the interval compared by >= instead of >
NeedsDeduplicationAtInterval(collection) ==
    IF Len(collection.memories) <= DEDUP_MIN_SIZE THEN FALSE
    ELSE IF collection.last_deduplicated_at = None THEN TRUE
    ELSE now - collection.last_deduplicated_at[1] >= DEDUP_INTERVAL_HOURS

\* _needs_deduplication
NeedsDeduplication(collection) ==
    IF Len(collection.memories) <= DEDUP_MIN_SIZE THEN FALSE
    ELSE IF collection.last_deduplicated_at = None THEN TRUE
    ELSE now - collection.last_deduplicated_at[1] > DEDUP_INTERVAL_HOURS

\* DeduplicateAndSave that leaves last_deduplicated_at as it was
DeduplicateAndSaveUnstamped(object, collection, to_remove, uploadOk) ==
    SaveMemories(object,
                 [collection EXCEPT !.memories = Survivors(collection.memories, to_remove, 1)],
                 uploadOk)

\* _deduplicate_and_save for one set of removed positions: the collection is
\* the cache entry, changed in place, then saved
DeduplicateAndSave(object, collection, to_remove, uploadOk) ==
    SaveMemories(object,
                 [collection EXCEPT !.memories = Survivors(collection.memories, to_remove, 1),
                                    !.last_deduplicated_at = Some(now)],
                 uploadOk)

\* VectorSearch asking the index for every vector, whatever top_k is
VectorSearchIgnoringTopK(collection, query, top_k) ==
    LET embeddings == [m \in 1..Len(collection.memories) |-> collection.memories[m].embedding]
        k == Len(collection.memories)
    IN  {[indices |-> indices,
          results |-> [t \in 1..Len(indices) |-> collection.memories[indices[t]].data]] :
            indices \in IndexFlatIPSearch(embeddings, Encode(query), k)}

\* step 4 and 5 of search_memories: the result lists the exact index may give
VectorSearch(collection, query, top_k) ==
    LET embeddings == [m \in 1..Len(collection.memories) |-> collection.memories[m].embedding]
        k == Min(top_k, Len(collection.memories))
    IN  {[indices |-> indices,
          results |-> [t \in 1..Len(indices) |-> collection.memories[indices[t]].data]] :
            indices \in IndexFlatIPSearch(embeddings, Encode(query), k)}

\* index.search(query_embedding, k) of the faiss wrapper starts with
\* "assert k > 0": the search raises when min(top_k, len) is below 1
IndexSearchRaises(collection, top_k) == Min(top_k, Len(collection.memories)) < 1

\* NoMemories testing "collection.memories is None", which a list never is
NoMemoriesIsNone(collection) == FALSE

\* step 2 of search_memories: "if not collection.memories"
NoMemories(collection) == collection.memories = <<>>

\* search_memories after its _load_memories has returned load: the outcomes
\* the call may have.  removals: the sets of positions _deduplicate_fast may
\* remove from the loaded memories
SearchMemoriesOutcomes(api_key, query, top_k, load, removals, uploadOk) ==
    LET memory_file_path == GetMemoryFilePath(api_key)
        object == blob[memory_file_path]
        begun == Begin(lastOp, "search", api_key, query, top_k)
        loaded == [begun EXCEPT !.cacheHit = load.hit, !.loadFailed = load.failed,
                                !.loaded = load.collection]
        checked == [loaded EXCEPT !.needsChecked = TRUE]
    IN  IF load.raised
        THEN {[blob |-> object, cache |-> cache[memory_file_path],
               saved |-> saved[memory_file_path],
               op |-> [loaded EXCEPT !.ret = RAISED]]}
        ELSE IF NoMemories(load.collection)
        THEN {[blob |-> object, cache |-> Entry(load.collection),
               saved |-> saved[memory_file_path],
               op |-> [loaded EXCEPT !.ret = RESULTS]]}
        ELSE IF NeedsDeduplication(load.collection)
        THEN UNION {
               LET save == DeduplicateAndSave(object, load.collection, to_remove, uploadOk)
                   deduped == [checked EXCEPT !.dedupRan = TRUE, !.removed = to_remove,
                                              !.uploads = 1, !.uploadFailed = save.raised]
               IN  IF save.raised
                   THEN {[blob |-> save.blob, cache |-> save.cache,
                          saved |-> SavedAfter(memory_file_path, save),
                          op |-> [deduped EXCEPT !.ret = RAISED]]}
                   ELSE IF IndexSearchRaises(save.cache.collection, top_k)
                   THEN {[blob |-> save.blob, cache |-> save.cache,
                          saved |-> SavedAfter(memory_file_path, save),
                          op |-> [deduped EXCEPT !.encodedQuery = TRUE, !.ret = RAISED]]}
                   ELSE {[blob |-> save.blob, cache |-> save.cache,
                          saved |-> SavedAfter(memory_file_path, save),
                          op |-> [deduped EXCEPT !.encodedQuery = TRUE, !.ret = RESULTS,
                                                 !.results = found.results,
                                                 !.indices = found.indices]] :
                            found \in VectorSearch(save.cache.collection, query, top_k)}
               : to_remove \in removals}
        ELSE IF IndexSearchRaises(load.collection, top_k)
        THEN {[blob |-> object, cache |-> Entry(load.collection),
               saved |-> saved[memory_file_path],
               op |-> [checked EXCEPT !.encodedQuery = TRUE, !.ret = RAISED]]}
        ELSE {[blob |-> object, cache |-> Entry(load.collection),
               saved |-> saved[memory_file_path],
               op |-> [checked EXCEPT !.encodedQuery = TRUE, !.ret = RESULTS,
                                      !.results = found.results,
                                      !.indices = found.indices]] :
                 found \in VectorSearch(load.collection, query, top_k)}

SearchMemories(api_key, downloadOk, uploadOk) ==
    LET memory_file_path == GetMemoryFilePath(api_key)
        load == LoadMemories(api_key, downloadOk)
        removals == DeduplicateFast(load.collection.memories)
    IN  \E query \in Queries, top_k \in TopKs :
          \E outcome \in SearchMemoriesOutcomes(api_key, query, top_k, load, removals, uploadOk) :
            /\ blob' = [blob EXCEPT ![memory_file_path] = outcome.blob]
            /\ cache' = [cache EXCEPT ![memory_file_path] = outcome.cache]
            /\ lastOp' = outcome.op
            /\ saved' = [saved EXCEPT ![memory_file_path] = outcome.saved]
            /\ UNCHANGED <<now, adds, inflight>>

(* --------------------------------- time -------------------------------- *)

\* time passes between two operations
Tick(hours) ==
    /\ now + hours <= MaxClock
    /\ now' = now + hours
    /\ UNCHANGED <<blob, cache, adds, lastOp, saved, inflight>>

(* ------------------------------ initial state -------------------------- *)

CATEGORY == "preferences"

TOPICS == <<"python">>

\* a memory as add_memory stored it at hour 0
Stored(content, importance) ==
    Memory(MemoryData(0, content, importance, CATEGORY, TOPICS), Encode(content))

TenMemories ==
    <<Stored("t0", 7), Stored("t1", 6), Stored("t2", 5), Stored("t3", 5), Stored("t4", 4),
      Stored("t6", 8), Stored("t7", 5), Stored("t8", 2), Stored("t9", 6), Stored("t10", 5)>>

ElevenMemories == Append(TenMemories, Stored("t11", 5))

\* the collections an earlier process may have saved at a path
InitialCollections ==
    {MemoryCollection(<<Stored("t1", 6)>>, 0, None),
     MemoryCollection(ElevenMemories, 0, None),
     MemoryCollection(TenMemories, 1, Some(1))}

\* what an earlier process may have left at a path
InitialBlobs ==
    {NoBlob, MalformedBlob} \cup {Blob(ModelDumpJson(collection)) : collection \in InitialCollections}

\* the collection whose upload wrote the initial object b
SavedAs(b) ==
    IF \E collection \in InitialCollections : b = Blob(ModelDumpJson(collection))
    THEN <<CHOOSE collection \in InitialCollections : b = Blob(ModelDumpJson(collection))>>
    ELSE <<>>

\* the ways files.download may go: it is called on a cache miss only, and
\* whether it reaches the store matters only when there is an object to get
Downloads(api_key) ==
    IF ~cache[GetMemoryFilePath(api_key)].present /\ blob[GetMemoryFilePath(api_key)].exists
    THEN BOOLEAN ELSE {TRUE}

Init ==
    /\ now = 1
    /\ blob \in [Paths -> InitialBlobs]
    /\ cache = [p \in Paths |-> NoEntry]
    /\ adds = 0
    /\ lastOp = NoOp
    /\ saved = [p \in Paths |-> SavedAs(blob[p])]
    /\ inflight = NothingInFlight

Next ==
    \/ \E hours \in TickHours : Tick(hours)
    \/ \E api_key \in ApiKeys, content \in AddContents, importance \in AddImportances :
          \E downloadOk \in Downloads(api_key), uploadOk \in BOOLEAN :
            AddMemory(api_key, content, importance, CATEGORY, TOPICS, downloadOk, uploadOk)
    \/ \E api_key \in ApiKeys :
          \E downloadOk \in Downloads(api_key), uploadOk \in BOOLEAN :
            SearchMemories(api_key, downloadOk, uploadOk)
    \/ \E api_key \in ApiKeys, deleteOk \in BOOLEAN : DeleteAllMemories(api_key, deleteOk)

Spec == Init /\ [][Next]_vars

(* --------------------------- the tool boundary ------------------------- *)

\* the top_k a tool call may carry: none, or an integer the caller chose; the
\* schema of the tool (minimum 1, maximum 20) tells the caller what to send
ToolTopKs == {None, Some(0), Some(1), Some(20), Some(21)}

\* arguments.get("top_k", 5)
ArgumentsGetTopK(arguments) ==
    IF arguments.top_k = None THEN DEFAULT_TOP_K ELSE arguments.top_k[1]

\* SearchMemoryTool._execute: reads query and top_k from the arguments and
\* calls search_memories with them
SearchMemoryToolExecute(api_key, downloadOk, uploadOk) ==
    LET memory_file_path == GetMemoryFilePath(api_key)
        load == LoadMemories(api_key, downloadOk)
        removals == DeduplicateFast(load.collection.memories)
    IN  \E arguments \in [query : Queries, top_k : ToolTopKs] :
          \E outcome \in SearchMemoriesOutcomes(api_key, arguments.query,
                                                ArgumentsGetTopK(arguments),
                                                load, removals, uploadOk) :
            /\ blob' = [blob EXCEPT ![memory_file_path] = outcome.blob]
            /\ cache' = [cache EXCEPT ![memory_file_path] = outcome.cache]
            /\ lastOp' = [outcome.op EXCEPT !.viaTool = TRUE, !.arguments = arguments.top_k]
            /\ saved' = [saved EXCEPT ![memory_file_path] = outcome.saved]
            /\ UNCHANGED <<now, adds, inflight>>

\* DeleteMemoryTool._execute: calls delete_all_memories
DeleteMemoryToolExecute(api_key, deleteOk) == DeleteAllMemories(api_key, deleteOk)

ToolNext ==
    \/ \E hours \in TickHours : Tick(hours)
    \/ \E api_key \in ApiKeys :
          \E downloadOk \in Downloads(api_key), uploadOk \in BOOLEAN :
             SearchMemoryToolExecute(api_key, downloadOk, uploadOk)
    \/ \E api_key \in ApiKeys, deleteOk \in BOOLEAN : DeleteMemoryToolExecute(api_key, deleteOk)

ToolSpec == Init /\ [][ToolNext]_vars

(* ------------------------ the dedup pass by itself --------------------- *)

\* the longest list of memories given to _deduplicate_fast
MaxInput == 3

\* the texts of the memories: two near each other, two far from them
DedupTexts == {"t0", "t1", "t6", "t10"}

\* the importances of the memories
DedupImportances == {5, 6}

\* the memories a list given to _deduplicate_fast is made of
DedupMemories == {Stored(content, importance) : content \in DedupTexts, importance \in DedupImportances}

\* the lists of memories given to _deduplicate_fast
DedupInputs == UNION {[1..n -> DedupMemories] : n \in 1..MaxInput}

\* a list of memories is about to be deduplicated
DedupInit ==
    /\ now = 1
    /\ blob = [p \in Paths |-> NoBlob]
    /\ cache = [p \in Paths |-> NoEntry]
    /\ adds = 0
    /\ \E memories \in DedupInputs :
          lastOp = [NoOp EXCEPT !.op = "memories", !.loaded.memories = memories]
    /\ saved = [p \in Paths |-> <<>>]
    /\ inflight = NothingInFlight

\* _deduplicate_fast(memories) returns
DeduplicateFastReturns ==
    /\ lastOp.op = "memories"
    /\ \E to_remove \in DeduplicateFast(lastOp.loaded.memories) :
          lastOp' = [lastOp EXCEPT !.op = "_deduplicate_fast", !.removed = to_remove,
                                   !.results = [t \in 1..Len(lastOp.loaded.memories) - Cardinality(to_remove) |->
                                                   Survivors(lastOp.loaded.memories, to_remove, 1)[t].data]]
    /\ UNCHANGED <<now, blob, cache, adds, saved, inflight>>

DedupNext == DeduplicateFastReturns

DedupSpec == DedupInit /\ [][DedupNext]_vars

(* ------------------- calls interleaved at their awaits ----------------- *)

\* the number of calls one event loop runs
MaxTasks == 3

TaskIds == 1..MaxTasks

\* what an earlier process may have left at a path
ConcurrentBlobs == {NoBlob, Blob(ModelDumpJson(MemoryCollection(<<Stored("t1", 6)>>, 0, None)))}

\* the content of the first, second, ... add_memory call
ConcurrentContents == <<"t0", "u1", "t9", "t2">>

ConcurrentImportance == 5

ConcurrentQuery == "t0"

\* a call that has not started.  pc is the await the call is suspended at, obj
\* the collection object it holds (named by the call that created it), json
\* the bytes it handed to files.upload
IdleTask ==
    [pc |-> "idle", op |-> "none", api_key |-> "", text |-> "", obj |-> 0, hit |-> FALSE,
     base |-> <<>>, memory |-> <<>>, json |-> EmptyJson, ret |-> "none", results |-> <<>>,
     storedAtStart |-> <<>>, deletesReturned |-> {}]

\* self._cache as the collections its entries refer to
CacheView(heap, entry) ==
    [p \in DOMAIN entry |-> IF entry[p] = 0 THEN NoEntry ELSE Entry(heap[entry[p]])]

\* the call task goes on as t, with the objects heap and the cache entries entry
Resume(task, t, heap, entry) ==
    /\ inflight' = [tasks |-> [inflight.tasks EXCEPT ![task] = t], heap |-> heap, entry |-> entry]
    /\ cache' = CacheView(heap, entry)

\* a call starts when the calls before it have started
MayStart(task) ==
    /\ inflight.tasks[task].pc = "idle"
    /\ \A earlier \in 1..task - 1 : inflight.tasks[earlier].pc # "idle"

\* add_memory is called and runs to the await of my_appdata_home in _load_memories
StartAdd(task, api_key) ==
    /\ MayStart(task)
    /\ adds < Len(ConcurrentContents)
    /\ adds' = adds + 1
    /\ Resume(task, [IdleTask EXCEPT !.pc = "load_path", !.op = "add", !.api_key = api_key,
                                     !.text = ConcurrentContents[adds + 1]],
              inflight.heap, inflight.entry)
    /\ UNCHANGED <<now, blob, lastOp, saved>>

\* search_memories is called and runs to the await of my_appdata_home
StartSearch(task, api_key) ==
    /\ MayStart(task)
    /\ Resume(task, [IdleTask EXCEPT !.pc = "load_path", !.op = "search", !.api_key = api_key,
                                     !.text = ConcurrentQuery,
                                     !.deletesReturned =
                                        {d \in DOMAIN inflight.tasks :
                                                         /\ inflight.tasks[d].op = "deleteAll"
                                                         /\ inflight.tasks[d].pc = "done"}],
              inflight.heap, inflight.entry)
    /\ UNCHANGED <<now, blob, adds, lastOp, saved>>

\* delete_all_memories is called and runs to the await of my_appdata_home
StartDelete(task, api_key) ==
    /\ MayStart(task)
    /\ Resume(task, [IdleTask EXCEPT !.pc = "delete_path", !.op = "deleteAll", !.api_key = api_key,
                                     !.storedAtStart =
                                        PersistedMemories(blob[GetMemoryFilePath(api_key)])],
              inflight.heap, inflight.entry)
    /\ UNCHANGED <<now, blob, adds, lastOp, saved>>

\* what a call does between the return of _load_memories and its next await,
\* for the call record t holding the loaded object: the records and heaps it
\* may go on with
AfterLoad(t, heap) ==
    LET collection == heap[t.obj]
        loaded == [t EXCEPT !.base = collection.memories]
    IN  IF t.op = "add"
        THEN LET memory == Memory(MemoryData(now, t.text, ConcurrentImportance, CATEGORY, TOPICS),
                                  Encode(t.text))
             IN  {[task |-> [loaded EXCEPT !.memory = <<memory>>, !.pc = "save_path"],
                   heap |-> [heap EXCEPT ![t.obj].memories = Append(@, memory)]]}
        ELSE IF NoMemories(collection)
        THEN {[task |-> [loaded EXCEPT !.pc = "done", !.ret = RESULTS], heap |-> heap]}
        ELSE IF NeedsDeduplication(collection)
        THEN {[task |-> [loaded EXCEPT !.pc = "save_path"],
               heap |-> [heap EXCEPT ![t.obj].memories = Survivors(@, to_remove, 1),
                                     ![t.obj].last_deduplicated_at = Some(now)]] :
                 to_remove \in DeduplicateFast(collection.memories)}
        ELSE {[task |-> [loaded EXCEPT !.pc = "done", !.ret = RESULTS, !.results = found.results],
               heap |-> heap] :
                 found \in VectorSearch(collection, t.text, DEFAULT_TOP_K)}

\* my_appdata_home returns in _load_memories: on a cache hit the call goes on
\* with the cached object, otherwise it awaits files.download
LoadGotPath(task) ==
    LET t == inflight.tasks[task]
        memory_file_path == GetMemoryFilePath(t.api_key)
    IN  /\ t.pc = "load_path"
        /\ IF inflight.entry[memory_file_path] # 0
           THEN \E next \in AfterLoad([t EXCEPT !.obj = inflight.entry[memory_file_path],
                                                !.hit = TRUE], inflight.heap) :
                    Resume(task, next.task, next.heap, inflight.entry)
           ELSE Resume(task, [t EXCEPT !.pc = "download"], inflight.heap, inflight.entry)
        /\ UNCHANGED <<now, blob, adds, lastOp, saved>>

\* files.download returns or raises: the call builds its own collection object
\* from the content, or an empty one, and puts it in the cache
LoadDownloaded(task) ==
    LET t == inflight.tasks[task]
        memory_file_path == GetMemoryFilePath(t.api_key)
        object == blob[memory_file_path]
        collection == IF Readable(object) THEN ModelValidate(object.json)
                      ELSE MemoryCollection(<<>>, now, None)
    IN  /\ t.pc = "download"
        /\ \E next \in AfterLoad([t EXCEPT !.obj = task],
                                 [inflight.heap EXCEPT ![task] = collection]) :
              Resume(task, next.task, next.heap,
                     [inflight.entry EXCEPT ![memory_file_path] = task])
        /\ UNCHANGED <<now, blob, adds, lastOp, saved>>

\* my_appdata_home returns in _save_memories: the object is stamped and dumped,
\* and the call awaits files.upload of those bytes
SaveGotPath(task) ==
    LET t == inflight.tasks[task]
        heap == [inflight.heap EXCEPT ![t.obj].updated_at = now]
    IN  /\ t.pc = "save_path"
        /\ Resume(task, [t EXCEPT !.pc = "upload", !.json = ModelDumpJson(heap[t.obj])],
                  heap, inflight.entry)
        /\ UNCHANGED <<now, blob, adds, lastOp, saved>>

\* files.upload storing the bytes of every call that uploaded to the path
UploadedMerging(object, json) ==
    IF Readable(object)
    THEN Blob([json EXCEPT !.memories =
                 SelectSeq(object.json.memories,
                           LAMBDA m : \A i \in 1..Len(json.memories) : json.memories[i] # m)
                 \o @])
    ELSE Blob(json)

\* files.upload(url, file): the object at the path becomes the bytes uploaded
Uploaded(object, json) == Blob(json)

\* files.upload returns: the object is put in the cache; add_memory returns
\* its confirmation, search_memories ranks the collection and returns
SaveUploaded(task) ==
    LET t == inflight.tasks[task]
        memory_file_path == GetMemoryFilePath(t.api_key)
        entry == [inflight.entry EXCEPT ![memory_file_path] = t.obj]
    IN  /\ t.pc = "upload"
        /\ blob' = [blob EXCEPT ![memory_file_path] = Uploaded(@, t.json)]
        /\ saved' = [saved EXCEPT ![memory_file_path] = <<ModelValidate(t.json)>>]
        /\ IF t.op = "add"
           THEN Resume(task, [t EXCEPT !.pc = "done", !.ret = STORED], inflight.heap, entry)
           ELSE \E found \in VectorSearch(inflight.heap[t.obj], t.text, DEFAULT_TOP_K) :
                   Resume(task, [t EXCEPT !.pc = "done", !.ret = RESULTS,
                                          !.results = found.results], inflight.heap, entry)
        /\ UNCHANGED <<now, adds, lastOp>>

\* my_appdata_home returns in delete_all_memories: the call awaits files.delete
DeleteGotPath(task) ==
    LET t == inflight.tasks[task]
    IN  /\ t.pc = "delete_path"
        /\ Resume(task, [t EXCEPT !.pc = "delete"], inflight.heap, inflight.entry)
        /\ UNCHANGED <<now, blob, adds, lastOp, saved>>

\* files.delete returns, or raises because there is no object: the cache entry
\* is dropped and the call returns its confirmation
DeleteDone(task) ==
    LET t == inflight.tasks[task]
        memory_file_path == GetMemoryFilePath(t.api_key)
    IN  /\ t.pc = "delete"
        /\ blob' = [blob EXCEPT ![memory_file_path] = NoBlob]
        /\ saved' = [saved EXCEPT ![memory_file_path] = <<>>]
        /\ Resume(task, [t EXCEPT !.pc = "done", !.ret = DELETED], inflight.heap,
                  [inflight.entry EXCEPT ![memory_file_path] = 0])
        /\ UNCHANGED <<now, adds, lastOp>>

\* a fresh process: nothing cached, no call started
ConcurrentInit ==
    /\ now = 1
    /\ blob \in [Paths -> ConcurrentBlobs]
    /\ cache = [p \in Paths |-> NoEntry]
    /\ adds = 0
    /\ lastOp = NoOp
    /\ saved = [p \in Paths |-> SavedAs(blob[p])]
    /\ inflight = [tasks |-> [task \in TaskIds |-> IdleTask],
                   heap |-> [task \in TaskIds |-> MemoryCollection(<<>>, 0, None)],
                   entry |-> [p \in Paths |-> 0]]

ConcurrentNext ==
    \/ \E task \in TaskIds, api_key \in ApiKeys : StartAdd(task, api_key)
    \/ \E task \in TaskIds, api_key \in ApiKeys : StartSearch(task, api_key)
    \/ \E task \in TaskIds, api_key \in ApiKeys : StartDelete(task, api_key)
    \/ \E task \in TaskIds : LoadGotPath(task)
    \/ \E task \in TaskIds : LoadDownloaded(task)
    \/ \E task \in TaskIds : SaveGotPath(task)
    \/ \E task \in TaskIds : SaveUploaded(task)
    \/ \E task \in TaskIds : DeleteGotPath(task)
    \/ \E task \in TaskIds : DeleteDone(task)

ConcurrentSpec == ConcurrentInit /\ [][ConcurrentNext]_vars

(* ------------------------------- two users ---------------------------- *)

\* the number of calls the event loop runs for the two users
MaxUserTasks == 2

UserTaskIds == 1..MaxUserTasks

\* the credentials of two users
TwoApiKeys == {"key1", "key2"}

\* their storage paths
TwoPaths == {GetMemoryFilePath(api_key) : api_key \in TwoApiKeys}

\* a fresh process serving two users
TwoUserInit ==
    /\ now = 1
    /\ blob \in [TwoPaths -> ConcurrentBlobs]
    /\ cache = [p \in TwoPaths |-> NoEntry]
    /\ adds = 0
    /\ lastOp = NoOp
    /\ saved = [p \in TwoPaths |-> SavedAs(blob[p])]
    /\ inflight = [tasks |-> [task \in UserTaskIds |-> IdleTask],
                   heap |-> [task \in UserTaskIds |-> MemoryCollection(<<>>, 0, None)],
                   entry |-> [p \in TwoPaths |-> 0]]

TwoUserNext ==
    \/ \E task \in UserTaskIds, api_key \in TwoApiKeys : StartAdd(task, api_key)
    \/ \E task \in UserTaskIds, api_key \in TwoApiKeys : StartSearch(task, api_key)
    \/ \E task \in UserTaskIds, api_key \in TwoApiKeys : StartDelete(task, api_key)
    \/ \E task \in UserTaskIds : LoadGotPath(task)
    \/ \E task \in UserTaskIds : LoadDownloaded(task)
    \/ \E task \in UserTaskIds : SaveGotPath(task)
    \/ \E task \in UserTaskIds : SaveUploaded(task)
    \/ \E task \in UserTaskIds : DeleteGotPath(task)
    \/ \E task \in UserTaskIds : DeleteDone(task)

TwoUserSpec == TwoUserInit /\ [][TwoUserNext]_vars

(* ------------------------------ properties ----------------------------- *)

\* the path the last operation worked on
LastPath == GetMemoryFilePath(lastOp.api_key)

\* the cosine of memory i of a list and a vector
CosineTo(memories, i, vector) == NormalizedInnerProduct(memories[i].embedding, vector)

\* C1: in every search on a non-empty collection the dedup pass runs if and
\* only if the loaded collection has more than 10 memories and its
\* last_deduplicated_at is absent or more than 24 hours before now
C1_DedupTrigger ==
    (lastOp.op = "search" /\ lastOp.loaded.memories # <<>>) =>
        (lastOp.dedupRan <=>
            /\ Len(lastOp.loaded.memories) > 10
            /\ \/ lastOp.loaded.last_deduplicated_at = None
               \/ lastOp.at - lastOp.loaded.last_deduplicated_at[1] > 24)

\* a search that ran the pass on a collection stamped more than 24 hours ago
C1_Witness ==
    /\ lastOp.op = "search"
    /\ lastOp.dedupRan
    /\ Len(lastOp.loaded.memories) > 10
    /\ lastOp.loaded.last_deduplicated_at # None
    /\ lastOp.at - lastOp.loaded.last_deduplicated_at[1] > 24

\* C2: after a dedup pass over 11 memories, of any two memories with cosine
\* similarity above 0.75 and different importance the less important one is
\* gone, the more important one is kept, and the collection has shrunk
C2_DedupKeepsMoreImportant ==
    (lastOp.op = "search" /\ lastOp.dedupRan /\ Len(lastOp.loaded.memories) = 11) =>
        \A i, j \in 1..11 :
            (/\ i # j
             /\ CosGreaterThan(CosineTo(lastOp.loaded.memories, i, lastOp.loaded.memories[j].embedding), 3, 4)
             /\ lastOp.loaded.memories[i].data.importance > lastOp.loaded.memories[j].data.importance)
            => /\ j \in lastOp.removed
               /\ i \notin lastOp.removed
               /\ 11 - Cardinality(lastOp.removed) <= 10

\* C3: the cache entry of a path, when present, is the collection persisted at
\* that path (an empty one when nothing readable is persisted), and after a
\* deleteAll the entry is absent only when the object is gone
C3_CacheIsPersistedState ==
    \A p \in Paths :
        /\ cache[p].present =>
              IF Readable(blob[p]) THEN cache[p].collection = ModelValidate(blob[p].json)
              ELSE cache[p].collection.memories = <<>>
        /\ (lastOp.op = "deleteAll" /\ p = LastPath /\ ~cache[p].present) => ~blob[p].exists

\* C4: an add whose upload fails raises; an add returns its confirmation only
\* when the upload completed, and then the object at the path holds the
\* collection that ends with the new memory
C4_ConfirmationOnlyAfterUpload ==
    lastOp.op = "add" =>
        /\ lastOp.uploadFailed => lastOp.ret = RAISED
        /\ lastOp.ret = STORED =>
              /\ ~lastOp.uploadFailed
              /\ lastOp.uploads = 1
              /\ Readable(blob[LastPath])
              /\ PersistedMemories(blob[LastPath]) # <<>>
              /\ PersistedMemories(blob[LastPath])[Len(PersistedMemories(blob[LastPath]))] = lastOp.newMemory[1]
              /\ lastOp.newMemory[1].data.content = lastOp.text

\* an add whose upload failed
C4_Witness == lastOp.op = "add" /\ lastOp.uploadFailed /\ lastOp.ret = RAISED

\* C5: when the download or the decoding of the object fails, the load gives
\* a fresh empty collection, and the add or search raises only if its own
\* upload failed
C5_ReadFailureIsEmptyCollection ==
    (lastOp.op \in {"add", "search"} /\ lastOp.loadFailed) =>
        /\ lastOp.loaded = MemoryCollection(<<>>, lastOp.at, None)
        /\ lastOp.ret = RAISED => lastOp.uploadFailed
        /\ lastOp.op = "search" => lastOp.ret = RESULTS

\* an add that returned its confirmation after a failed read of an object that exists
C5_Witness ==
    /\ lastOp.op = "add"
    /\ lastOp.loadFailed
    /\ lastOp.ret = STORED
    /\ lastOp.persistedBefore # <<>>

\* C6: after a successful add the persisted memories are the memories
\* persisted before it, in the same order, followed by the new memory
C6_AddKeepsPersistedMemories ==
    (lastOp.op = "add" /\ lastOp.ret = STORED) =>
        PersistedMemories(blob[LastPath]) = Append(lastOp.persistedBefore, lastOp.newMemory[1])

\* C7: a search that follows a deleteAll returns the empty sequence
C7_SearchAfterDeleteAllIsEmpty ==
    (lastOp.op = "search" /\ lastOp.prevOp = "deleteAll") =>
        lastOp.ret = RESULTS /\ lastOp.results = <<>>

\* C8: deleteAll returns its confirmation whether the object existed, did
\* not exist or the delete call raised, and leaves no cache entry for the path
C8_DeleteAllAlwaysConfirms ==
    lastOp.op = "deleteAll" => lastOp.ret = DELETED /\ ~cache[LastPath].present

\* a deleteAll whose delete call raised while the object exists
C8_Witness ==
    /\ lastOp.op = "deleteAll"
    /\ lastOp.deleteRaised
    /\ blob[LastPath].exists
    /\ lastOp.ret = DELETED

\* the last operation is a search for the content of the memory that the
\* add just before it stored: that memory is the last one of the loaded list
SearchForJustAdded ==
    /\ lastOp.op = "search"
    /\ lastOp.prevOp = "add"
    /\ lastOp.prevRet = STORED
    /\ lastOp.loaded.memories # <<>>
    /\ lastOp.loaded.memories[Len(lastOp.loaded.memories)].data.content = lastOp.text

\* the search returned the memory just added as its first result
JustAddedIsFirst ==
    /\ lastOp.ret = RESULTS
    /\ lastOp.results # <<>>
    /\ lastOp.results[1] = lastOp.loaded.memories[Len(lastOp.loaded.memories)].data

\* C9 as stated: an add followed by a search for its content returns the new
\* memory first when no other memory is more similar to the query, also when
\* the search runs a dedup pass
C9_JustAddedRankedFirst ==
    (/\ SearchForJustAdded
     /\ \A i \in 1..Len(lastOp.loaded.memories) - 1 :
            ~CosLess(CosineTo(lastOp.loaded.memories, Len(lastOp.loaded.memories), Encode(lastOp.text)),
                     CosineTo(lastOp.loaded.memories, i, Encode(lastOp.text))))
    => JustAddedIsFirst

\* C9 amended: an add followed by a search for its content returns the new
\* memory first when every other memory is strictly less similar to the query
\* and the search runs no dedup pass
C9_JustAddedRankedFirstAmended ==
    (/\ SearchForJustAdded
     /\ ~lastOp.dedupRan
     /\ \A i \in 1..Len(lastOp.loaded.memories) - 1 :
            CosLess(CosineTo(lastOp.loaded.memories, i, Encode(lastOp.text)),
                    CosineTo(lastOp.loaded.memories, Len(lastOp.loaded.memories), Encode(lastOp.text))))
    => JustAddedIsFirst

\* a search without dedup pass for the content just added to a collection
\* that holds another, less similar memory
C9_Witness ==
    /\ SearchForJustAdded
    /\ ~lastOp.dedupRan
    /\ Len(lastOp.loaded.memories) >= 2
    /\ \A i \in 1..Len(lastOp.loaded.memories) - 1 :
            CosLess(CosineTo(lastOp.loaded.memories, i, Encode(lastOp.text)),
                    CosineTo(lastOp.loaded.memories, Len(lastOp.loaded.memories), Encode(lastOp.text)))
    /\ JustAddedIsFirst

\* C10: a search on an empty collection returns the empty sequence without
\* checking the dedup trigger, embedding the query or uploading
C10_EmptySearch ==
    (lastOp.op = "search" /\ lastOp.loaded.memories = <<>>) =>
        /\ lastOp.ret = RESULTS
        /\ lastOp.results = <<>>
        /\ ~lastOp.needsChecked
        /\ ~lastOp.dedupRan
        /\ ~lastOp.encodedQuery
        /\ lastOp.uploads = 0
        /\ PersistedMemories(blob[LastPath]) = lastOp.persistedBefore

\* a search that found an object it could not read
C10_Witness ==
    /\ lastOp.op = "search"
    /\ lastOp.loadFailed
    /\ blob[LastPath].exists
    /\ ~Readable(blob[LastPath])
    /\ lastOp.results = <<>>

(* ------------------------- the result of a search ---------------------- *)

\* the collection the last search ranked: the cache entry it left
Ranked == cache[LastPath].collection.memories

\* the fields of a MemoryData record
MemoryDataFields == {"id", "content", "importance", "category", "topics"}

\* a search that returned results for a collection that was not empty
SearchReturned ==
    /\ lastOp.op = "search"
    /\ lastOp.ret = RESULTS
    /\ lastOp.loaded.memories # <<>>

\* C11: a search on a non-empty collection returns exactly min(top_k, n)
\* records, n the size of the collection after the dedup pass of that search
\* if one ran; the records are the data of pairwise distinct positions of that
\* collection, in descending similarity to the query, without the embedding
C11_SearchResultShape ==
    SearchReturned =>
        LET n == Len(lastOp.loaded.memories) - Cardinality(lastOp.removed)
            indices == lastOp.indices
            results == lastOp.results
        IN  /\ n = Len(Ranked)
            /\ Len(results) = Min(lastOp.top_k, n)
            /\ Len(indices) = Len(results)
            /\ \A t \in 1..Len(indices) :
                  /\ indices[t] \in 1..n
                  /\ results[t] = Ranked[indices[t]].data
                  /\ DOMAIN results[t] = MemoryDataFields
            /\ \A s, t \in 1..Len(indices) : s # t => indices[s] # indices[t]
            /\ \A t \in 1..Len(indices) - 1 :
                  ~CosLess(CosineTo(Ranked, indices[t], Encode(lastOp.text)),
                           CosineTo(Ranked, indices[t + 1], Encode(lastOp.text)))

\* a search with top_k below the size of its collection that returned top_k
\* records of strictly descending similarity
C11_Witness ==
    /\ SearchReturned
    /\ lastOp.top_k = DEFAULT_TOP_K
    /\ Len(Ranked) > DEFAULT_TOP_K
    /\ Len(lastOp.results) = DEFAULT_TOP_K
    /\ CosLess(CosineTo(Ranked, lastOp.indices[2], Encode(lastOp.text)),
               CosineTo(Ranked, lastOp.indices[1], Encode(lastOp.text)))

\* C12: when a search that ran a dedup pass returns, the persisted object is
\* the consolidated collection, the survivors only, with last_deduplicated_at
\* the time of the pass; every pass is followed by a save in the same
\* operation, and the ranking of that search uses the survivors only
C12_DedupIsSavedBeforeReturn ==
    (lastOp.op = "search" /\ lastOp.dedupRan) =>
        /\ lastOp.uploads = 1
        /\ lastOp.ret = RESULTS =>
             LET survivors == Survivors(lastOp.loaded.memories, lastOp.removed, 1)
             IN  /\ blob[LastPath] =
                        Blob(ModelDumpJson(MemoryCollection(survivors, lastOp.at, Some(lastOp.at))))
                 /\ ModelValidate(blob[LastPath].json).last_deduplicated_at = Some(lastOp.at)
                 /\ \A t \in 1..Len(lastOp.results) :
                        \E s \in 1..Len(survivors) : lastOp.results[t] = survivors[s].data

\* a search that removed memories in a dedup pass and returned results
C12_Witness ==
    /\ lastOp.op = "search"
    /\ lastOp.dedupRan
    /\ lastOp.removed # {}
    /\ lastOp.ret = RESULTS
    /\ lastOp.results # <<>>
    /\ Len(PersistedMemories(blob[LastPath])) < Len(lastOp.loaded.memories)

(* ---------------------------- the dedup pass --------------------------- *)

\* a search that ran a dedup pass
DedupPassRan == lastOp.op = "search" /\ lastOp.dedupRan

\* C13: in a dedup pass a neighbour j of a memory i is treated as a duplicate
\* of i exactly when the cosine similarity of their embeddings is above 0.75
C13_DuplicateIffCosineAboveThreshold ==
    DedupPassRan =>
        \A i, j \in 1..Len(lastOp.loaded.memories) :
            (i # j /\ Inspected(lastOp.loaded.memories, i, j))
            => (TreatedAsDuplicate(lastOp.loaded.memories, i, j)
                  <=> CosGreaterThan(CosineTo(lastOp.loaded.memories, i,
                                              lastOp.loaded.memories[j].embedding), 3, 4))

\* a is b with some elements left out
RECURSIVE IsSubsequence(_, _)
IsSubsequence(a, b) ==
    IF a = <<>> THEN TRUE
    ELSE IF b = <<>> THEN FALSE
    ELSE IF Head(a) = Head(b) THEN IsSubsequence(Tail(a), Tail(b))
    ELSE IsSubsequence(a, Tail(b))

\* C14: the result of a dedup pass is a subsequence of its input: every memory
\* of the result is a memory of the input, data and embedding unchanged, in
\* the original relative order, none added or repeated, and never more of them
C14_DedupResultIsSubsequence ==
    DedupPassRan =>
        /\ IsSubsequence(Ranked, lastOp.loaded.memories)
        /\ Len(Ranked) <= Len(lastOp.loaded.memories)
        /\ Len(Ranked) = Len(lastOp.loaded.memories) - Cardinality(lastOp.removed)

\* a dedup pass that kept at least two memories and removed one between or
\* before them
C14_Witness ==
    /\ DedupPassRan
    /\ Len(Ranked) >= 2
    /\ Len(Ranked) < Len(lastOp.loaded.memories)
    /\ Ranked[1] # lastOp.loaded.memories[1]

(* --------------------------- save and reload --------------------------- *)

\* an add or a search that missed the cache and read the object at its path
LoadedFromStore ==
    /\ lastOp.op \in {"add", "search"}
    /\ ~lastOp.cacheHit
    /\ ~lastOp.loadFailed

DedupStampBefore ==
    IF lastOp.savedBefore = <<>> THEN None ELSE lastOp.savedBefore[1].last_deduplicated_at

\* C20: last_deduplicated_at of a user's collection changes only inside a
\* search that runs a dedup pass: an add never evaluates the trigger, never
\* runs the pass and leaves last_deduplicated_at as it was, and every save, of
\* an add or of a pass, sets updated_at to the time of the save
C20_StampsChangeOnlyWhereTheyShould ==
    /\ lastOp.op = "add" =>
          /\ ~lastOp.needsChecked
          /\ ~lastOp.dedupRan
          /\ cache[LastPath].present =>
                cache[LastPath].collection.last_deduplicated_at = lastOp.loaded.last_deduplicated_at
          /\ lastOp.ret = STORED =>
                ModelValidate(blob[LastPath].json).last_deduplicated_at = DedupStampBefore
    /\ (lastOp.op = "search" /\ ~lastOp.dedupRan /\ Readable(blob[LastPath])) =>
          ModelValidate(blob[LastPath].json).last_deduplicated_at = DedupStampBefore
    /\ (lastOp.op \in {"add", "search"} /\ lastOp.uploads = 1 /\ ~lastOp.uploadFailed) =>
          ModelValidate(blob[LastPath].json).updated_at = lastOp.at

(* --------------------------- the tool boundary ------------------------- *)

\* C17: the search tool calls the search of the store with top_k = 5 when the
\* arguments carry no top_k and with a top_k in 1..20 otherwise: the search of
\* the store never runs with top_k below 1 or above 20
C17_ToolTopKInRange ==
    (lastOp.op = "search" /\ lastOp.viaTool) =>
        /\ lastOp.arguments = None => lastOp.top_k = DEFAULT_TOP_K
        /\ lastOp.top_k \in 1..20

(* ------------------------- neighbours in the pass ---------------------- *)

\* C18: in a dedup pass each memory is compared with its nearest neighbours
\* other than itself, min(10, n) of them when there are that many: no memory
\* is inspected as its own neighbour, whatever order the index gives to
\* results at equal distance
C18_NeverItsOwnNeighbour ==
    DedupPassRan =>
        LET memories == lastOp.loaded.memories
            n == Len(memories)
        IN  \A i \in 1..n :
                /\ ~Inspected(memories, i, i)
                /\ Cardinality({j \in 1..n : j # i /\ Inspected(memories, i, j)})
                        >= Min(DEDUP_K, n - 1)

(* ------------------------- interleaved operations ---------------------- *)

\* memory m is in the object persisted at the only path
IsPersisted(m) ==
    \E p \in Paths : \E i \in 1..Len(PersistedMemories(blob[p])) : PersistedMemories(blob[p])[i] = m

\* memory m is in the list of memories
IsIn(m, memories) == \E i \in 1..Len(memories) : memories[i] = m

\* two adds that both returned their confirmation, whose loads both missed the
\* cache and read the object before the other one had saved
BothConfirmedFromTheSameBase(a, b) ==
    /\ a # b
    /\ inflight.tasks[a].op = "add" /\ inflight.tasks[b].op = "add"
    /\ inflight.tasks[a].ret = STORED /\ inflight.tasks[b].ret = STORED
    /\ ~inflight.tasks[a].hit /\ ~inflight.tasks[b].hit
    /\ ~IsIn(inflight.tasks[a].memory[1], inflight.tasks[b].base)
    /\ ~IsIn(inflight.tasks[b].memory[1], inflight.tasks[a].base)

\* C15: when two adds whose loads both miss the cache are interleaved at their
\* awaits so that both load before either saves, the saves are not merged:
\* the persisted object never holds the memories of both, and there is an
\* interleaving after which both have returned their confirmation and the
\* object lacks the memory of one of them
C15_LaterSaveOverwrites ==
    \A a, b \in TaskIds :
        BothConfirmedFromTheSameBase(a, b) =>
            ~(IsPersisted(inflight.tasks[a].memory[1]) /\ IsPersisted(inflight.tasks[b].memory[1]))

\* both adds returned their confirmation and the object holds the memory of
\* the second and not the memory of the first
C15_Witness ==
    \E a, b \in TaskIds :
        /\ BothConfirmedFromTheSameBase(a, b)
        /\ ~IsPersisted(inflight.tasks[a].memory[1])
        /\ IsPersisted(inflight.tasks[b].memory[1])

\* C19: once a deleteAll has returned its confirmation, no search started
\* later returns a memory that was stored before that deleteAll started,
\* whatever the interleaving with other calls
C19_NothingComesBackAfterDeleteAll ==
    \A s, d \in TaskIds :
        (/\ inflight.tasks[s].op = "search"
         /\ inflight.tasks[s].pc = "done"
         /\ d \in inflight.tasks[s].deletesReturned)
        => \A i \in 1..Len(inflight.tasks[s].results) :
              ~\E j \in 1..Len(inflight.tasks[d].storedAtStart) :
                    inflight.tasks[s].results[i] = inflight.tasks[d].storedAtStart[j].data

(* ------------------------ the dedup pass by itself --------------------- *)

\* _deduplicate_fast has returned for the list lastOp.loaded.memories
DedupReturned == lastOp.op = "_deduplicate_fast"

\* memory i of the list is strictly more important than every other one
StrictlyMostImportant(memories, i) ==
    \A j \in 1..Len(memories) :
        j # i => memories[i].data.importance > memories[j].data.importance

\* C21: a memory whose importance is strictly higher than that of every other
\* memory of the collection is never removed by a dedup pass, whatever
\* neighbour lists the index returns
C21_MostImportantSurvives ==
    DedupReturned =>
        \A i \in 1..Len(lastOp.loaded.memories) :
            StrictlyMostImportant(lastOp.loaded.memories, i) => i \notin lastOp.removed

\* a pass that removed memories listed before the strictly most important one
\* and kept that one
C21_Witness ==
    /\ DedupReturned
    /\ \E i \in 2..Len(lastOp.loaded.memories) :
          /\ StrictlyMostImportant(lastOp.loaded.memories, i)
          /\ i \notin lastOp.removed
          /\ \E j \in 1..i - 1 : j \in lastOp.removed

\* j is at an inspected position of every list of neighbours the index may
\* return for memory i
AlwaysInspected(memories, i, j) ==
    \A neighbors \in IndexHNSWFlatSearch([m \in 1..Len(memories) |-> memories[m].embedding],
                                        i, Min(DEDUP_K, Len(memories))) :
        \E j_idx \in 2..Len(neighbors) : neighbors[j_idx] = j

\* C22: after a dedup pass no two survivors are a detected duplicate pair: for
\* every surviving memory i, no neighbour the pass examined for i whose
\* similarity to i is above 0.75 survives
C22_NoDuplicatePairSurvives ==
    DedupReturned =>
        \A i, j \in 1..Len(lastOp.loaded.memories) :
            (/\ i # j
             /\ i \notin lastOp.removed
             /\ AlwaysInspected(lastOp.loaded.memories, i, j)
             /\ CosGreaterThan(CosineTo(lastOp.loaded.memories, i,
                                        lastOp.loaded.memories[j].embedding), 3, 4))
            => j \in lastOp.removed

\* C23: a dedup pass on a non-empty collection never returns an empty one: at
\* least one memory survives, for every assignment of importances, all equal
\* included, and every neighbour list the index may return
C23_DedupNeverReturnsEmpty ==
    DedupReturned =>
        /\ Cardinality(lastOp.removed) < Len(lastOp.loaded.memories)
        /\ lastOp.results # <<>>
        /\ \E i \in 1..Len(lastOp.loaded.memories) : i \notin lastOp.removed

\* a pass over memories of equal importance, two of them with the same
\* embedding, that kept exactly one memory
C23_Witness ==
    /\ DedupReturned
    /\ Len(lastOp.loaded.memories) = MaxInput
    /\ \A i, j \in 1..Len(lastOp.loaded.memories) :
          lastOp.loaded.memories[i].data.importance = lastOp.loaded.memories[j].data.importance
    /\ \E i, j \in 1..Len(lastOp.loaded.memories) :
          i # j /\ lastOp.loaded.memories[i].embedding = lastOp.loaded.memories[j].embedding
    /\ Len(lastOp.results) = 1

(* --------------------------- read-only search ------------------------- *)

\* the dedup trigger is false for the collection the last operation loaded
TriggerIsFalse ==
    \/ Len(lastOp.loaded.memories) <= 10
    \/ /\ lastOp.loaded.last_deduplicated_at # None
       /\ lastOp.at - lastOp.loaded.last_deduplicated_at[1] <= 24

\* C24: a search whose dedup trigger is false is read-only: it uploads
\* nothing and leaves the persisted object and the cached collection, its
\* memories, their order, updated_at and last_deduplicated_at, as they were
C24_SearchWithoutDedupIsReadOnly ==
    (lastOp.op = "search" /\ TriggerIsFalse) =>
        /\ ~lastOp.dedupRan
        /\ lastOp.uploads = 0
        /\ blob[LastPath] = lastOp.objectBefore
        /\ saved[LastPath] = lastOp.savedBefore
        /\ cache[LastPath].present
        /\ cache[LastPath].collection.memories = lastOp.loaded.memories
        /\ cache[LastPath].collection.updated_at = lastOp.loaded.updated_at
        /\ cache[LastPath].collection.last_deduplicated_at = lastOp.loaded.last_deduplicated_at

\* a search of a cached collection of more than 10 memories, deduplicated
\* less than 24 hours before, that returned results
C24_Witness ==
    /\ lastOp.op = "search"
    /\ lastOp.cacheHit
    /\ lastOp.needsChecked
    /\ Len(lastOp.loaded.memories) > 10
    /\ TriggerIsFalse
    /\ lastOp.results # <<>>

(* ------------------------------- two users ---------------------------- *)

\* no search returns a memory that a call with another credential added
NoResultFromAnotherUser ==
    \A s, a \in DOMAIN inflight.tasks :
        (/\ inflight.tasks[s].op = "search"
         /\ inflight.tasks[a].op = "add"
         /\ inflight.tasks[a].memory # <<>>
         /\ inflight.tasks[a].api_key # inflight.tasks[s].api_key)
        => \A i \in 1..Len(inflight.tasks[s].results) :
              inflight.tasks[s].results[i] # inflight.tasks[a].memory[1].data

\* a step changes the object or the cache entry of a path only when it is a
\* step of a call with the credential of that path
OnlyOwnPathChanges ==
    \A p \in DOMAIN blob :
        (blob'[p] # blob[p] \/ cache'[p] # cache[p]) =>
            \E task \in DOMAIN inflight.tasks :
                /\ inflight'.tasks[task] # inflight.tasks[task]
                /\ GetMemoryFilePath(inflight'.tasks[task].api_key) = p

\* C25: for two credentials with different storage paths, every step of an
\* add, a search or a deleteAll under one of them, in any interleaving, leaves
\* the persisted object and the cache entry of the other unchanged, and a
\* search under one never returns a memory added under the other
C25_UsersAreIsolated == [][OnlyOwnPathChanges]_vars /\ []NoResultFromAnotherUser

\* an add under the first credential was confirmed, and a search under the
\* second returned what is stored for the second
C25_Witness ==
    \E s, a \in DOMAIN inflight.tasks :
        /\ inflight.tasks[a].op = "add"
        /\ inflight.tasks[a].api_key = "key1"
        /\ inflight.tasks[a].ret = STORED
        /\ inflight.tasks[s].op = "search"
        /\ inflight.tasks[s].api_key = "key2"
        /\ inflight.tasks[s].pc = "done"
        /\ inflight.tasks[s].results # <<>>
        /\ blob[GetMemoryFilePath("key1")] # blob[GetMemoryFilePath("key2")]

====
